---- MODULE Spec2Model ----
(***************************************************************************)
(* A model of gen-wcwidth.py, the generator of kitty's Unicode tables.     *)
(*                                                                         *)
(* A codepoint is a natural number.  A Python set is a TLA+ set; a Python  *)
(* list or tuple is a sequence.  What get_ranges yields is a sequence of   *)
(* items: <<a>> stands for the int a, <<a, b>> for the tuple (a, b).       *)
(* An emitted C or Go function is kept as the structure of its text: the   *)
(* statements before the switch, the case clauses in the order they were   *)
(* printed, and the default branch.                                        *)
(***************************************************************************)
EXTENDS Integers, Sequences, FiniteSets, TLC

\* ------------------------------------------------------------------ bounds

\* get_ranges is tried on the lists of distinct values of 0..MaxVal.
MaxVal == 3

\* ------------------------------------------------------- python built-ins

Range(f) == {f[i] : i \in DOMAIN f}

Min(S) == CHOOSE x \in S : \A y \in S : x <= y

\* A sort that leaves the list as it is.
SortOmitted(s) == s

\* list.sort() / sorted(): the ascending rearrangement of s, by splitting
\* around its middle entry.
RECURSIVE Sort(_)
Sort(s) ==
    IF Len(s) <= 1 THEN s
    ELSE LET p == s[(Len(s) + 1) \div 2]
         IN  Sort(SelectSeq(s, LAMBDA x : x < p))
             \o SelectSeq(s, LAMBDA x : x = p)
             \o Sort(SelectSeq(s, LAMBDA x : x > p))

\* The lists a Python set S may be iterated as: every arrangement of S.
Perms(S) ==
    {f \in [1..Cardinality(S) -> S] : \A i, j \in DOMAIN f : f[i] = f[j] => i = j}

\* One list of the set S of numbers of lo..hi that is not sorted: the
\* descending one, by halving lo..hi.
RECURSIVE DescListIn(_, _, _)
DescListIn(S, lo, hi) ==
    IF S = {} THEN <<>>
    ELSE IF lo = hi THEN <<lo>>
    ELSE LET mid == (lo + hi) \div 2
         IN  DescListIn({x \in S : x > mid}, mid + 1, hi)
             \o DescListIn({x \in S : x <= mid}, lo, mid)

\* --------------------------------------------------------------- get_ranges

\* A grouping key that is the value alone.
GroupKeyValue(s, i) == s[i]

\* The groupby key of get_ranges for the entry at (1-based) position i:
\* enumerate's index minus the value.
GroupKey(s, i) == (i - 1) - s[i]

\* itertools.groupby: the maximal blocks of neighbouring entries with the
\* same key, each block the tuple of its values.  A block starts at the
\* first entry and wherever the key differs from the entry before.
GroupBy(s) ==
    LET starts == {i \in 1..Len(s) : i = 1 \/ GroupKey(s, i) # GroupKey(s, i - 1)}
        start(k) == CHOOSE i \in starts : Cardinality({j \in starts : j < i}) = k - 1
        end(k) == IF k = Cardinality(starts) THEN Len(s) ELSE start(k + 1) - 1
    IN  [k \in 1..Cardinality(starts) |-> SubSeq(s, start(k), end(k))]

\* What one group yields: a if a == b, else the tuple (a, b).
RangeItem(group) ==
    LET a == group[1]
        b == group[Len(group)]
    IN  IF a = b THEN <<a>> ELSE <<a, b>>

\* get_ranges: sort, group, one item per group.
GetRanges(items) ==
    LET sorted == Sort(items)
        groups == GroupBy(sorted)
    IN  [k \in 1..Len(groups) |-> RangeItem(groups[k])]

\* isinstance(spec, tuple)
IsTuple(spec) == Len(spec) = 2

\* The values an item stands for.
ItemLo(spec) == spec[1]
ItemHi(spec) == spec[Len(spec)]
ItemValues(spec) == ItemLo(spec)..ItemHi(spec)
Covered(ranges) == UNION {ItemValues(ranges[k]) : k \in DOMAIN ranges}

\* ------------------------------------------------------------------ state

VARIABLES
    order,            \* two runs over one input set: run |-> the list the set is iterated as
    run_out,          \* run |-> what the run emitted, NotRun before it ran
    class_maps,       \* class_maps: category |-> set of codepoints
    marks,            \* marks
    property_maps,    \* property_maps: property |-> set of codepoints
    narrow_emoji,     \* narrow_emoji
    wide_emoji,       \* wide_emoji
    ambiguous,        \* ambiguous
    doublewidth,      \* doublewidth
    not_assigned,     \* not_assigned
    codes,            \* gen_rowcolumn_diacritics' codes, the lines of rowcolumn-diacritics.txt
    name_map,         \* name_map: codepoint |-> the words of its name
    word_search_map,  \* word_search_map: word |-> set of codepoints
    names_elsewhere,  \* how many more codepoints name_map names, outside the model's codepoints
    readme_version,   \* whether ReadMe.txt holds a 'Version a.b.c' line
    gofmt_ok,         \* whether the gofmt calls succeed
    files,            \* the files of the working tree: path |-> content
    pc,               \* where the script stands
    raised,           \* the exception that ended the run, "" while none
    seen,             \* gen_wcwidth's seen
    emitted,          \* the functions printed so far: name |-> structure of its text
    rmap              \* gen_ucd's rmap: codepoint |-> ordinal

rangeVars == <<order, run_out>>

dataVars ==
    <<class_maps, marks, property_maps, narrow_emoji, wide_emoji, ambiguous,
      doublewidth, not_assigned, codes, name_map, word_search_map,
      names_elsewhere, readme_version, gofmt_ok>>

genVars == <<files, pc, raised, seen, emitted, rmap>>

vars == <<rangeVars, dataVars, genVars>>

Runs == {"A", "B"}
NotRun == [ran |-> FALSE]

\* --------------------------------------------------------------- gen_names

\* gen_names, the loop that inverts word_search_map: codepoint |-> its words.
AliasesMap(wsm) ==
    [cp \in UNION Range(wsm) |-> {w \in DOMAIN wsm : cp \in wsm[w]}]

\* The entries of list s that are in S, in the order of s.
ListIn(s, S) == SelectSeq(s, LAMBDA x : x \in S)

\* gen_names, the text of names.txt: the line of the two counts, then one
\* line per codepoint of sorted(name_map): the codepoint, the words of its
\* name, and the sorted aliases that are not words of the name.  The list
\* `iter` gives the order in which sets are iterated.  A word is a number,
\* ordered as its string.
NamesTxt(nm, wsm, iter) ==
    LET am == AliasesMap(wsm)
        keys == Sort(ListIn(iter, DOMAIN nm))
        line(cp) ==
            LET words == nm[cp]
                aliases == (IF cp \in DOMAIN am THEN am[cp] ELSE {}) \ Range(words)
            IN  [cp |-> cp, words |-> words, aliases |-> Sort(ListIn(iter, aliases))]
    IN  <<[names |-> Cardinality(DOMAIN nm), words |-> Cardinality(DOMAIN wsm)]>>
        \o [i \in 1..Len(keys) |-> line(keys[i])]

\* A mark_map without the entry for 'no mark'.
MarkMapNoSentinel(marksList) == Sort(marksList)

\* gen_ucd: mark_map = [0] + list(sorted(marks)), from the list marks is
\* iterated as.
MarkMap(marksList) == <<0>> \o Sort(marksList)

\* --------------------------------------------------- the program's constants

\* 0x20 and 0x7e, the printable ASCII range of the early returns.
AsciiLo == 32
AsciiHi == 126
\* 0xfe0e and 0xfe0f, the variation selectors whose ordinals are patched
\* into unicode-data.h.
VS15 == 65038
VS16 == 65039
\* sys.maxunicode
maxunicode == 1114111
\* 0xffff, the most codepoints gen_names accepts in name_map.
MaxNamed == 65535

flag_codepoints == 127462..(127462 + 25)
emoji_skin_tone_modifiers == 127995..127999
non_characters ==
    {65534 + 65536 * k : k \in 0..16} \cup {65535 + 65536 * k : k \in 0..16}
    \cup (64976..65007)

\* ------------------------------------------------------- the parsed data

\* The general categories of the model's UnicodeData.txt, and the first
\* letter of each.
Major ==
    [Cc |-> "C", Cf |-> "C", Cs |-> "C", Co |-> "C", Mn |-> "M", Lu |-> "L",
     Nd |-> "N", Po |-> "P", Zs |-> "Z", Sk |-> "S", So |-> "S"]
Categories == DOMAIN Major
ODICP == "Other_Default_Ignorable_Code_Point"

\* The codepoints the data files of the model speak of, besides the flags,
\* the skin tone modifiers and the two variation selectors: NUL and its
\* neighbour U+0001, the space (the first printable ASCII character), and
\* U+0378 and U+0379, which UnicodeData.txt leaves unassigned.
Unassigned == 888..889
Pool == (0..1) \cup {AsciiLo} \cup Unassigned
\* The last four codepoints: U+10FFFC and U+10FFFD end the range
\* <Plane 16 Private Use, First> ... <Plane 16 Private Use, Last>, U+10FFFE
\* and U+10FFFF = sys.maxunicode follow it.
LastCodepoints == (maxunicode - 3)..maxunicode
Codepoints ==
    Pool \cup flag_codepoints \cup emoji_skin_tone_modifiers \cup {VS15, VS16}
    \cup LastCodepoints

\* What every UnicodeData.txt of the model holds: the controls U+0000 and
\* U+0001 (Cc), the space (Zs), the flags (So), the skin tone modifiers (Sk)
\* and the variation selectors named in `vs` (Mn).  Every emoji-sequences.txt
\* of the model lists the flags and the skin tone modifiers, which makes
\* them wide emoji.
BaseClass(c, vs) ==
    CASE c = "Cc" -> 0..1
      [] c = "Zs" -> {AsciiLo}
      [] c = "So" -> flag_codepoints
      [] c = "Sk" -> emoji_skin_tone_modifiers
      [] c = "Mn" -> vs
      [] OTHER -> {}

\* The sets of at most k members of S.
RECURSIVE SubsetsUpTo(_, _)
SubsetsUpTo(S, k) ==
    IF k = 0 THEN {{}}
    ELSE LET P == SubsetsUpTo(S, k - 1)
         IN  P \cup {T \cup {x} : T \in P, x \in S}

\* An entry <<field, cp>> is one line of a data file: codepoint cp has the
\* category, property, emoji kind or East Asian width `field`.
\* An entry <<field, first, last>> is a pair of lines `<..., First>` and
\* `<..., Last>`: the codepoints first..last have the category `field`.
EntryCodepoints(e) == IF Len(e) = 3 THEN e[2]..e[3] ELSE {e[2]}
Field(E, f) == UNION {EntryCodepoints(e) : e \in {x \in E : x[1] = f}}

\* parse_ucd: class_maps after all lines; the marks it adds (categories M*
\* and Cf); the codepoints it discards from not_assigned.
ParsedClassMaps(E, vs) == [c \in Categories |-> BaseClass(c, vs) \cup Field(E, c)]
ParsedMarks(cm, odicp) ==
    emoji_skin_tone_modifiers \cup flag_codepoints \cup odicp
    \cup UNION {cm[c] : c \in {x \in Categories : Major[x] = "M" \/ x = "Cf"}}
ParsedNotAssigned(cm) ==
    {c \in Codepoints : c < maxunicode} \ UNION {cm[c] : c \in Categories}

\* The state after the parse_* calls over data files holding the lines E,
\* with the variation selectors vs in UnicodeData.txt.
Parsed(E, vs) ==
    /\ class_maps = ParsedClassMaps(E, vs)
    /\ property_maps = [x \in {ODICP} |-> Field(E, ODICP)]
    /\ marks = ParsedMarks(class_maps, property_maps[ODICP])
    /\ not_assigned = ParsedNotAssigned(class_maps)
    /\ narrow_emoji = Field(E, "narrow")
    /\ wide_emoji = flag_codepoints \cup emoji_skin_tone_modifiers \cup Field(E, "wide")
    /\ ambiguous = Field(E, "ambiguous")
    /\ doublewidth = Field(E, "doublewidth")

\* all_emoji and emoji_presentation_bases: every parse_* of the emoji file
\* adds to both what it adds to narrow_emoji or wide_emoji.
all_emoji == narrow_emoji \cup wide_emoji
emoji_presentation_bases == narrow_emoji \cup wide_emoji
\* all_symbols: the codepoints of the S* categories.
all_symbols == UNION {class_maps[c] : c \in {x \in Categories : Major[x] = "S"}}

\* ------------------------------------------------------ files and control

FileNames ==
    {"kitty/unicode-data.c", "kitty/unicode-data.h", "kittens/hints/url_regex.go",
     "kitty/wcwidth-std.h", "tools/wcswidth/std.go", "kitty/emoji.h",
     "tools/unicode_names/names.txt", "kitty/rowcolumn-diacritics.c",
     "tools/utils/images/rowcolumn_diacritics.go"}

\* A file as the run found it; `anchors` says whether it holds the
\* START_KNOWN_MARKS ... END_KNOWN_MARKS region, vs the two ordinals in it.
OriginalFile(anchors) ==
    [original |-> TRUE, text |-> <<>>, anchors |-> anchors, vs |-> <<0, 0>>]
\* open(path, 'w') and what was printed into the file since.
WrittenFile(text) ==
    [original |-> FALSE, text |-> text, anchors |-> FALSE, vs |-> <<0, 0>>]

At(step, k) == [at |-> step, k |-> k]

\* list(S) as the generator sees it: the members of S in an order the code
\* must not rely on.
ListOf(S) == DescListIn(S, 0, maxunicode)

\* --------------------------------------------------------------- write_case

\* write_case: the case label printed for one item of get_ranges.
WriteCase(spec, for_go) ==
    IF IsTuple(spec)
    THEN IF for_go
         THEN [kind |-> "list",
               vals |-> [i \in 1..(spec[2] - spec[1] + 1) |-> spec[1] + i - 1]]
         ELSE [kind |-> "range", lo |-> spec[1], hi |-> spec[2]]
    ELSE [kind |-> "single", v |-> spec[1]]

\* Whether a case label matches a value.
Matches(label, code) ==
    CASE label.kind = "list" -> code \in Range(label.vals)
      [] label.kind = "range" -> label.lo <= code /\ code <= label.hi
      [] label.kind = "single" -> code = label.v

\* The value a printed return statement gives for `code`: a literal, or
\* `base + c - start`.
Lit(v) == [kind |-> "lit", v |-> v]
Offset(base, start) == [kind |-> "offset", base |-> base, start |-> start]
RetValue(ret, code) ==
    IF ret.kind = "lit" THEN ret.v ELSE ret.base + code - ret.start

\* A printed function: the statements before the switch, the clauses of the
\* switch in the order printed, and what is returned when no clause
\* matches (the default branch or the return after the switch): <<>> until
\* that is printed, then <<value>>.
FunctionNames ==
    {"is_combining_char", "is_ignored_char", "is_non_rendered_char", "is_word_char",
     "is_CZ_category", "is_P_category", "codepoint_for_mark", "mark_for_codepoint",
     "wcwidth_std", "Runewidth", "is_emoji_presentation_base",
     "IsEmojiPresentationBase", "is_emoji", "is_symbol", "URL_DELIMITERS",
     "diacritic_to_num", "NumberToDiacritic"}
NotEmitted == [printed |-> FALSE]
Function(pre, clauses, default) ==
    [printed |-> TRUE, pre |-> pre, sections |-> <<>>, clauses |-> clauses,
     default |-> default]

\* The comment line that opens a section of clauses: `// comment (n codepoints)`.
Section(comment, chars) == [comment |-> comment, count |-> Cardinality(chars)]

\* `if (LIKELY(lo <= code && code <= hi)) return ret;` and
\* `if (LIKELY(code < bound)) return ret;`
IfBetween(lo, hi, ret) == [kind |-> "between", lo |-> lo, hi |-> hi, ret |-> ret]
IfBelow(bound, ret) == [kind |-> "below", lo |-> 0, hi |-> bound - 1, ret |-> ret]

\* The clauses of a printed function that match `code`, by position.
MatchingClauses(fn, code) ==
    {i \in DOMAIN fn.clauses : Matches(fn.clauses[i].label, code)}

\* What a printed function returns for `code`: the first statement before
\* the switch that applies, else the matching clause, else the default.
Call(fn, code) ==
    LET early == {i \in DOMAIN fn.pre : fn.pre[i].lo <= code /\ code <= fn.pre[i].hi}
        hit == MatchingClauses(fn, code)
    IN  IF early # {} THEN fn.pre[Min(early)].ret
        ELSE IF hit # {} THEN RetValue(fn.clauses[Min(hit)].ret, code)
        ELSE fn.default[1]

\* The clauses printed for the items of get_ranges(list(chars)), each
\* returning ret, tagged with the section (layer) they were printed in.
Clauses(chars, ret, for_go, section) ==
    LET rs == GetRanges(ListOf(chars))
    IN  [k \in 1..Len(rs) |->
            [section |-> section, label |-> WriteCase(rs[k], for_go), ret |-> Lit(ret)]]

\* The exception `why` ends the run.
Raise(why) ==
    /\ pc' = At("failed", 0)
    /\ raised' = why

\* ------------------------------------------------------------------ gen_ucd

\* create_header up to its yield: open(path, 'w'), then the header lines;
\* unicode_version() raises ValueError when ReadMe.txt has no version line,
\* which leaves the file opened and empty.
HeaderOpened(path) ==
    [files EXCEPT ![path] = WrittenFile(IF readme_version THEN <<"header">> ELSE <<>>)]

\* gen_ucd up to the first category_test.
UcdBegin ==
    /\ pc = At("gen_ucd", 0)
    /\ files' = HeaderOpened("kitty/unicode-data.c")
    /\ IF readme_version
       THEN pc' = At("category_test", 1) /\ UNCHANGED raised
       ELSE Raise("ValueError")
    /\ UNCHANGED <<seen, emitted, rmap, rangeVars, dataVars>>

\* The classes whose name starts with one of the letters.
ClassesOf(letters) == {c \in Categories : Major[c] \in letters}

\* gen_ucd's calls of category_test, in their order (none passes exclude,
\* whose default is the empty set).
CategoryTests ==
    <<[name |-> "is_combining_char", classes |-> {}, extra_chars |-> marks,
       exclude |-> {},
       least_check_return |-> <<FALSE>>, ascii_range |-> <<>>],
      [name |-> "is_ignored_char", classes |-> {"Cc", "Cs"},
       extra_chars |-> non_characters, exclude |-> {},
       least_check_return |-> <<>>, ascii_range |-> <<FALSE>>],
      [name |-> "is_non_rendered_char", classes |-> {"Cc", "Cs", "Cf"},
       extra_chars |-> property_maps[ODICP] \cup (65024..65039), exclude |-> {},
       least_check_return |-> <<>>, ascii_range |-> <<FALSE>>],
      [name |-> "is_word_char", classes |-> ClassesOf({"L", "N"}), extra_chars |-> {},
       exclude |-> {}, least_check_return |-> <<>>, ascii_range |-> <<>>],
      [name |-> "is_CZ_category", classes |-> ClassesOf({"C", "Z"}), extra_chars |-> {},
       exclude |-> {}, least_check_return |-> <<>>, ascii_range |-> <<>>],
      [name |-> "is_P_category", classes |-> ClassesOf({"P"}), extra_chars |-> {},
       exclude |-> {}, least_check_return |-> <<>>, ascii_range |-> <<>>]>>

\* category_test: chars, the union of the classes and extra_chars, minus
\* exclude.
CategoryChars(t) ==
    (UNION {class_maps[c] : c \in t.classes} \cup t.extra_chars) \ t.exclude

\* category_test: the lines printed before the switch.  An optional
\* argument is <<>> for None, <<value>> when given.
EarlyReturns(t, chars) ==
    (IF t.least_check_return # <<>>
     THEN <<IfBelow(Min(chars), t.least_check_return[1])>> ELSE <<>>)
    \o (IF t.ascii_range # <<>>
        THEN <<IfBetween(AsciiLo, AsciiHi, t.ascii_range[1])>> ELSE <<>>)

\* category_test: the function printed.
CategoryFunction(t) ==
    LET chars == CategoryChars(t)
    IN  [Function(EarlyReturns(t, chars), Clauses(chars, TRUE, FALSE, 1), <<FALSE>>)
            EXCEPT !.sections = <<Section(t.name, chars)>>]

\* The call of category_test at pc.k.
CategoryTest ==
    /\ pc.at = "category_test"
    /\ pc.k \in DOMAIN CategoryTests
    /\ LET t == CategoryTests[pc.k]
       IN  /\ emitted' = [emitted EXCEPT ![t.name] = CategoryFunction(t)]
           /\ files' = [files EXCEPT !["kitty/unicode-data.c"].text = Append(@, t.name)]
    /\ pc' = IF pc.k < Len(CategoryTests) THEN At(pc.at, pc.k + 1) ELSE At("mark_maps", 0)
    /\ UNCHANGED <<raised, seen, rmap, rangeVars, dataVars>>

\* codepoint_to_mark_map: rmap = {c: m for m, c in enumerate(mark_map)}
RMap(mark_map) ==
    [c \in Range(mark_map) |->
        CHOOSE m \in 0..(Len(mark_map) - 1) :
            /\ mark_map[m + 1] = c
            /\ \A n \in 0..(Len(mark_map) - 1) : mark_map[n + 1] = c => n <= m]

\* A return statement that offsets from the ordinal of the range's end.
MarkReturnFromEnd(spec, rm) ==
    IF IsTuple(spec) THEN Offset(rm[spec[2]], spec[1]) ELSE Lit(rm[spec[1]])

\* codepoint_to_mark_map: the return statement of one item: for a range
\* `return s + c - spec[0]` with s = rmap[spec[0]], else `return rmap[spec]`.
MarkReturn(spec, rm) ==
    IF IsTuple(spec) THEN Offset(rm[spec[1]], spec[1]) ELSE Lit(rm[spec[1]])

\* codepoint_to_mark_map: one clause per item of get_ranges(mark_map); a
\* range is printed as the list of its `case i:` labels.
MarkClauses(mark_map) ==
    LET rm == RMap(mark_map)
        rs == GetRanges(mark_map)
    IN  [k \in 1..Len(rs) |->
            [section |-> 1, label |-> WriteCase(rs[k], TRUE), ret |-> MarkReturn(rs[k], rm)]]

\* The printed codepoint_for_mark: the array, and the test
\* `if (m < arraysz(map)) return map[m]; return 0;`.
ForwardFunction(mark_map) == [printed |-> TRUE, map |-> mark_map]
ForwardCall(fn, m) == IF m < Len(fn.map) THEN fn.map[m + 1] ELSE 0

\* gen_ucd: mark_map, codepoint_for_mark and mark_for_codepoint.
MarkMaps ==
    /\ pc = At("mark_maps", 0)
    /\ LET mark_map == MarkMap(ListOf(marks))
       IN  /\ emitted' = [emitted EXCEPT
                  !["codepoint_for_mark"] = ForwardFunction(mark_map),
                  !["mark_for_codepoint"] = Function(<<>>, MarkClauses(mark_map), <<0>>)]
           /\ rmap' = RMap(mark_map)
    /\ files' = [files EXCEPT !["kitty/unicode-data.c"].text =
          @ \o <<"codepoint_for_mark", "mark_for_codepoint">>]
    /\ pc' = At("patch", 0)
    /\ UNCHANGED <<raised, seen, rangeVars, dataVars>>

\* A patch that does not look at the number of substitutions.
PatchedAlways(content) == TRUE

\* gen_ucd: `num` of re.subn is not zero: the file holds the region
\* '// START_KNOWN_MARKS ... // END_KNOWN_MARKS'.
Patched(content) == content.anchors

\* re.subn on the file's text: the region replaced by the two ordinals, or
\* the text as it was.
Substituted(content, vs15, vs16) ==
    IF content.anchors
    THEN [original |-> FALSE, text |-> content.text, anchors |-> TRUE, vs |-> <<vs15, vs16>>]
    ELSE content

\* gen_ucd: the patch of unicode-data.h, and the end of create_header's
\* block.  rmap[0xfe0e] or rmap[0xfe0f] raises KeyError when the variation
\* selector is no mark; SystemExit when nothing was substituted; both before
\* the file is written, and unicode-data.c is closed as it then stands.
PatchKnownMarks ==
    /\ pc = At("patch", 0)
    /\ IF ~({VS15, VS16} \subseteq DOMAIN rmap)
       THEN Raise("KeyError") /\ UNCHANGED files
       ELSE IF ~Patched(files["kitty/unicode-data.h"])
       THEN Raise("SystemExit") /\ UNCHANGED files
       ELSE /\ files' = [files EXCEPT
                  !["kitty/unicode-data.h"] = Substituted(@, rmap[VS15], rmap[VS16]),
                  !["kitty/unicode-data.c"].text = Append(@, "footer")]
            /\ pc' = At("url_regex", 0)
            /\ UNCHANGED raised
    /\ UNCHANGED <<seen, emitted, rmap, rangeVars, dataVars>>

\* gen_ucd's end: url_regex.go, the ranges of the C and Z classes without
\* newline and carriage return.
WriteUrlRegex ==
    /\ pc = At("url_regex", 0)
    /\ files' = [files EXCEPT !["kittens/hints/url_regex.go"] =
          WrittenFile(<<"URL_DELIMITERS">>)]
    /\ emitted' = [emitted EXCEPT !["URL_DELIMITERS"] =
          Function(<<>>,
                   Clauses(UNION {class_maps[c] : c \in ClassesOf({"C", "Z"})} \ {10, 13},
                           TRUE, FALSE, 1),
                   <<FALSE>>)]
    /\ pc' = At("gen_wcwidth", 0)
    /\ UNCHANGED <<raised, seen, rmap, rangeVars, dataVars>>

\* -------------------------------------------------------------- gen_wcwidth

\* add_all's calls of add, in their order: comment, chars_, ret.
Layer(comment, chars, ret) == [comment |-> comment, chars |-> chars, ret |-> ret]
non_printing == class_maps["Cc"] \cup class_maps["Cf"] \cup class_maps["Cs"]
WidthLayers ==
    <<Layer("Flags", flag_codepoints, 2),
      Layer("Marks", marks \cup {0}, 0),
      Layer("Non-printing characters", non_printing, -1),
      Layer("Private use", class_maps["Co"], -3),
      Layer("Text Presentation", narrow_emoji, 1),
      Layer("East Asian ambiguous width", ambiguous, -2),
      Layer("East Asian double width", doublewidth, 2),
      Layer("Emoji Presentation", wide_emoji, 2),
      Layer("Not assigned in the unicode character database", not_assigned, -4)>>

\* The two passes of add_all: the step of pc, the function printed into,
\* for_go, and the step that follows.
Passes ==
    [c  |-> [step |-> "add_all", fn |-> "wcwidth_std", for_go |-> FALSE,
             next |-> At("add_all_go", 0)],
     go |-> [step |-> "add_all_go", fn |-> "Runewidth", for_go |-> TRUE,
             next |-> At("presentation_base", 0)]]

\* add: chars = chars_ - seen, without the subtraction.
AddCharsAll(chars_, claimed) == chars_

\* add: chars = chars_ - seen
AddChars(chars_, claimed) == chars_ \ claimed

\* add: seen.update(chars), left out.
AddSeenKept(claimed, chars) == claimed

\* add: seen.update(chars)
AddSeen(claimed, chars) == claimed \cup chars

\* gen_wcwidth up to the first add_all: both files are opened and the
\* lines before the clauses printed; the C function alone starts with the
\* printable-ASCII early return.
WcwidthBegin ==
    /\ pc = At("gen_wcwidth", 0)
    /\ IF ~readme_version
       THEN /\ Raise("ValueError")
            /\ files' = HeaderOpened("kitty/wcwidth-std.h")
            /\ UNCHANGED emitted
       ELSE /\ pc' = At("add_all", 0)
            /\ files' = [HeaderOpened("kitty/wcwidth-std.h") EXCEPT
                  !["kitty/wcwidth-std.h"].text = Append(@, "wcwidth_std"),
                  !["tools/wcswidth/std.go"] = WrittenFile(<<"package", "Runewidth">>)]
            /\ emitted' = [emitted EXCEPT
                  !["wcwidth_std"] = Function(<<IfBetween(AsciiLo, AsciiHi, 1)>>, <<>>, <<>>),
                  !["Runewidth"] = Function(<<>>, <<>>, <<>>)]
            /\ UNCHANGED raised
    /\ UNCHANGED <<seen, rmap, rangeVars, dataVars>>

\* add_all: seen.clear()
AddAllClear(pass) ==
    /\ pc = At(Passes[pass].step, 0)
    /\ seen' = {}
    /\ pc' = At(Passes[pass].step, 1)
    /\ UNCHANGED <<files, raised, emitted, rmap, rangeVars, dataVars>>

\* add, called for layer pc.k of add_all.
Add(pass) ==
    /\ pc.at = Passes[pass].step
    /\ pc.k \in DOMAIN WidthLayers
    /\ LET layer == WidthLayers[pc.k]
           chars == AddChars(layer.chars, seen)
           fn == Passes[pass].fn
       IN  /\ seen' = AddSeen(seen, chars)
           /\ emitted' = [emitted EXCEPT
                  ![fn].sections = Append(@, Section(layer.comment, chars)),
                  ![fn].clauses =
                      @ \o Clauses(chars, layer.ret, Passes[pass].for_go, pc.k)]
    /\ pc' = At(pc.at, pc.k + 1)
    /\ UNCHANGED <<files, raised, rmap, rangeVars, dataVars>>

\* add_all after its last add: `default: return 1` and the closing lines.
AddAllEnd(pass) ==
    /\ pc = At(Passes[pass].step, Len(WidthLayers) + 1)
    /\ emitted' = [emitted EXCEPT ![Passes[pass].fn].default = <<1>>]
    /\ pc' = Passes[pass].next
    /\ UNCHANGED <<files, raised, seen, rmap, rangeVars, dataVars>>

\* gen_wcwidth after the two add_all: is_emoji_presentation_base in both
\* files, the version lines, and both files closed.
PresentationBase ==
    /\ pc = At("presentation_base", 0)
    /\ emitted' = [emitted EXCEPT
          !["is_emoji_presentation_base"] =
              Function(<<>>, Clauses(emoji_presentation_bases, TRUE, FALSE, 1), <<FALSE>>),
          !["IsEmojiPresentationBase"] =
              Function(<<>>, Clauses(emoji_presentation_bases, TRUE, TRUE, 1), <<FALSE>>)]
    /\ files' = [files EXCEPT
          !["kitty/wcwidth-std.h"].text =
              @ \o <<"is_emoji_presentation_base", "UNICODE_VERSION", "footer">>,
          !["tools/wcswidth/std.go"].text =
              @ \o <<"IsEmojiPresentationBase", "UnicodeDatabaseVersion">>]
    /\ pc' = At("gofmt_std", 0)
    /\ UNCHANGED <<raised, seen, rmap, rangeVars, dataVars>>

\* subprocess.check_call(['gofmt', '-w', '-s', path]): the file rewritten
\* in place, or CalledProcessError.
Gofmt(path) == [files EXCEPT ![path].text = Append(@, "gofmt")]

\* gen_wcwidth's last line.
GofmtStd ==
    /\ pc = At("gofmt_std", 0)
    /\ IF gofmt_ok
       THEN /\ files' = Gofmt("tools/wcswidth/std.go")
            /\ pc' = At("gen_emoji", 0)
            /\ UNCHANGED raised
       ELSE /\ Raise("CalledProcessError")
            /\ UNCHANGED files
    /\ UNCHANGED <<seen, emitted, rmap, rangeVars, dataVars>>

\* ---------------------------------------------------------------- gen_emoji

\* A printed test of membership: `case ...: return true;` per item of
\* get_ranges(list(chars)), `default: return false;`.
MembershipFunction(chars) ==
    Function(<<>>, Clauses(chars, TRUE, FALSE, 1), <<FALSE>>)

\* gen_emoji: kitty/emoji.h with is_emoji and is_symbol.
GenEmoji ==
    /\ pc = At("gen_emoji", 0)
    /\ IF ~readme_version
       THEN /\ Raise("ValueError")
            /\ files' = HeaderOpened("kitty/emoji.h")
            /\ UNCHANGED emitted
       ELSE /\ files' = [HeaderOpened("kitty/emoji.h") EXCEPT
                  !["kitty/emoji.h"].text = @ \o <<"is_emoji", "is_symbol", "footer">>]
            /\ emitted' = [emitted EXCEPT
                  !["is_emoji"] = MembershipFunction(all_emoji),
                  !["is_symbol"] = MembershipFunction(all_symbols)]
            /\ pc' = At("gen_names", 0)
            /\ UNCHANGED raised
    /\ UNCHANGED <<seen, rmap, rangeVars, dataVars>>

\* ---------------------------------------------------------------- gen_names

\* len(name_map)
NamedCodepoints == Cardinality(DOMAIN name_map) + names_elsewhere

\* gen_names: 'Too many named codepoints' before names.txt is opened, else
\* names.txt with the line of the counts and the lines of the codepoints.
GenNames ==
    /\ pc = At("gen_names", 0)
    /\ IF NamedCodepoints > MaxNamed
       THEN /\ Raise("Exception")
            /\ UNCHANGED files
       ELSE /\ files' = [files EXCEPT !["tools/unicode_names/names.txt"] =
                  WrittenFile([NamesTxt(name_map, word_search_map,
                                        ListOf(DOMAIN name_map \cup DOMAIN word_search_map))
                                  EXCEPT ![1].names = NamedCodepoints])]
            /\ pc' = At("gen_rowcolumn_diacritics", 0)
            /\ UNCHANGED raised
    /\ UNCHANGED <<seen, emitted, rmap, rangeVars, dataVars>>

\* ------------------------------------------------- gen_rowcolumn_diacritics

\* print_range: nothing when range_start >= range_end, else
\* write_case((range_start, range_end), p) and
\* `return code - range_start + range_start_num;`.
PrintRange(out, range_start_num, range_start, range_end) ==
    IF range_start >= range_end THEN out
    ELSE Append(out, [section |-> 1,
                      label |-> WriteCase(<<range_start, range_end>>, FALSE),
                      ret |-> Offset(range_start_num, range_start)])

\* The loop over codes and the print_range after it: the clauses printed.
RECURSIVE DiacriticLoop(_, _, _, _, _)
DiacriticLoop(cs, range_start_num, range_start, range_end, out) ==
    IF cs = <<>> THEN PrintRange(out, range_start_num, range_start, range_end)
    ELSE IF range_end = Head(cs)
    THEN DiacriticLoop(Tail(cs), range_start_num, range_start, range_end + 1, out)
    ELSE DiacriticLoop(Tail(cs), range_start_num + (range_end - range_start),
                       Head(cs), Head(cs) + 1,
                       PrintRange(out, range_start_num, range_start, range_end))

DiacriticClauses(cs) == DiacriticLoop(cs, 1, 0, 0, <<>>)

\* gen_rowcolumn_diacritics up to the end of the with block: both files
\* with diacritic_to_num and the array NumberToDiacritic.
GenRowcolumnDiacritics ==
    /\ pc = At("gen_rowcolumn_diacritics", 0)
    /\ IF ~readme_version
       THEN /\ Raise("ValueError")
            /\ files' = HeaderOpened("kitty/rowcolumn-diacritics.c")
            /\ UNCHANGED emitted
       ELSE /\ files' = [files EXCEPT
                  !["kitty/rowcolumn-diacritics.c"] =
                      WrittenFile(<<"header", "diacritic_to_num", "footer">>),
                  !["tools/utils/images/rowcolumn_diacritics.go"] =
                      WrittenFile(<<"header", "package", "NumberToDiacritic">>)]
            /\ emitted' = [emitted EXCEPT
                  !["diacritic_to_num"] = Function(<<>>, DiacriticClauses(codes), <<0>>),
                  !["NumberToDiacritic"] = [printed |-> TRUE, map |-> codes]]
            /\ pc' = At("gofmt_diacritics", 0)
            /\ UNCHANGED raised
    /\ UNCHANGED <<seen, rmap, rangeVars, dataVars>>

\* gen_rowcolumn_diacritics' last line; the script ends after it.
GofmtDiacritics ==
    /\ pc = At("gofmt_diacritics", 0)
    /\ IF gofmt_ok
       THEN /\ files' = Gofmt("tools/utils/images/rowcolumn_diacritics.go")
            /\ pc' = At("done", 0)
            /\ UNCHANGED raised
       ELSE /\ Raise("CalledProcessError")
            /\ UNCHANGED files
    /\ UNCHANGED <<seen, emitted, rmap, rangeVars, dataVars>>

\* ------------------------------------------ two runs over one input set

\* The input of both runs, as sets: the codepoints are the values of the
\* list; each is named by the word of its own number and is found under
\* every word that is not smaller.
RunChars(s) == Range(s)
RunNameMap(s) == [cp \in Range(s) |-> <<cp>>]
RunWordSearchMap(s) == [w \in Range(s) |-> {cp \in Range(s) : cp <= w}]

\* The compile-and-emit steps of one run whose sets are iterated as s.
CompileAndEmit(s) ==
    [ran      |-> TRUE,
     ranges   |-> GetRanges(ListIn(s, RunChars(s))),
     mark_map |-> MarkMap(ListIn(s, RunChars(s) \ {0})),
     names    |-> NamesTxt(RunNameMap(s), RunWordSearchMap(s), s)]

\* name_map, word_search_map and rowcolumn-diacritics.txt hold nothing.
NoNames ==
    /\ codes = <<>>
    /\ name_map = [cp \in {} |-> <<>>]
    /\ word_search_map = [w \in {} |-> {}]
    /\ names_elsewhere = 0

\* The generator before its first step, over an untouched working tree
\* whose unicode-data.h holds the anchors or not.
NotStarted(anchors) ==
    /\ files = [f \in FileNames |-> OriginalFile(f = "kitty/unicode-data.h" /\ anchors)]
    /\ pc = At("gen_ucd", 0)
    /\ raised = ""
    /\ seen = {}
    /\ emitted = [f \in FunctionNames |-> NotEmitted]
    /\ rmap = [c \in {} |-> 0]

InitRanges ==
    /\ \E S \in SUBSET (0..MaxVal) : order \in [Runs -> Perms(S)]
    /\ run_out = [r \in Runs |-> NotRun]
    /\ Parsed({}, {VS15, VS16})
    /\ NoNames
    /\ readme_version = TRUE /\ gofmt_ok = TRUE
    /\ NotStarted(TRUE)

RunGenerator(r) ==
    /\ ~run_out[r].ran
    /\ run_out' = [run_out EXCEPT ![r] = CompileAndEmit(order[r])]
    /\ UNCHANGED <<order, dataVars, genVars>>

NextRanges == \E r \in Runs : RunGenerator(r)

SpecRanges == InitRanges /\ [][NextRanges]_vars

\* ------------------------------------------------------------------ C3

\* The maximal runs of consecutive integers of S, counted by their first
\* members.
RunStarts(S) == {x \in S : x - 1 \notin S}

RangesWellFormed(rs, S) ==
    /\ \A k \in DOMAIN rs :
          \/ Len(rs[k]) = 1
          \/ Len(rs[k]) = 2 /\ rs[k][1] < rs[k][2]
    /\ \A k \in 1..(Len(rs) - 1) : ItemLo(rs[k + 1]) > ItemHi(rs[k]) + 1
    /\ Covered(rs) = S
    /\ Len(rs) = Cardinality(RunStarts(S))

\* C3: for a list of distinct integers get_ranges yields single values and
\* pairs lo < hi, ascending, disjoint and non-adjacent (each item starts
\* above the previous item's hi + 1), covering exactly the input set, one
\* item per maximal run of consecutive integers.
C3_RangesMinimalOrdered ==
    \A r \in Runs :
        run_out[r].ran => RangesWellFormed(run_out[r].ranges, Range(order[r]))

\* C3's case: an unsorted list with a run of two and a lone value was
\* compressed into a pair and a single value.
C3_Witness ==
    /\ run_out["A"].ran
    /\ order["A"] = <<3, 1, 0>>
    /\ run_out["A"].ranges = <<(<<0, 1>>), (<<3>>)>>

\* ------------------------------------------------------------------ C6

\* C6: two runs over the same input sets, iterated in different orders,
\* emit the same ranges, the same forward mark array and the same
\* name/alias lines.
C6_Deterministic ==
    (run_out["A"].ran /\ run_out["B"].ran) => run_out["A"] = run_out["B"]

\* C6's case: both runs ran, over the same set iterated in different orders.
C6_Witness ==
    /\ run_out["A"].ran /\ run_out["B"].ran
    /\ order["A"] # order["B"]
    /\ Len(order["A"]) >= 3

\* ------------------------------------------------- gen_wcwidth on its own

\* The most lines the data files of a gen_wcwidth run hold beyond the base.
MaxWidthEntries == 2

\* The lines the data files of a gen_wcwidth run may hold: a category, an
\* emoji kind or an East Asian width for a codepoint of the pool.  NUL, the
\* 'no mark' codepoint of mark_map, is in no class that makes marks.
WidthFields == {"Cf", "Co", "Mn", "narrow", "wide", "ambiguous", "doublewidth"}
WidthSlots ==
    {e \in WidthFields \X Pool : e[2] = 0 => e[1] \notin {"Cf", "Mn"}}

InitWidth ==
    /\ \E E \in SubsetsUpTo(WidthSlots, MaxWidthEntries) : Parsed(E, {VS15, VS16})
    /\ NoNames
    /\ readme_version = TRUE
    /\ gofmt_ok = TRUE
    /\ files = [f \in FileNames |-> OriginalFile(f = "kitty/unicode-data.h")]
    /\ pc = At("gen_wcwidth", 0)
    /\ raised = ""
    /\ seen = {}
    /\ emitted = [f \in FunctionNames |-> NotEmitted]
    /\ rmap = [c \in {} |-> 0]
    /\ order = [r \in Runs |-> <<>>]
    /\ run_out = [r \in Runs |-> NotRun]

NextWidth ==
    \/ WcwidthBegin
    \/ \E pass \in DOMAIN Passes : AddAllClear(pass)
    \/ \E pass \in DOMAIN Passes : Add(pass)
    \/ \E pass \in DOMAIN Passes : AddAllEnd(pass)
    \/ PresentationBase
    \/ GofmtStd

SpecWidth == InitWidth /\ [][NextWidth]_vars

\* The values a case label lists.
LabelValues(label) ==
    CASE label.kind = "list" -> Range(label.vals)
      [] label.kind = "range" -> label.lo..label.hi
      [] label.kind = "single" -> {label.v}

\* The codepoints the clauses of section k of a printed function list.
SectionSet(fn, k) ==
    UNION {LabelValues(fn.clauses[i].label) :
             i \in {j \in DOMAIN fn.clauses : fn.clauses[j].section = k}}

\* The codes the printed functions are called with: every codepoint of the
\* data, and codepoints in no set, inside and outside printable ASCII.
TestCodes == Codepoints \cup {2, AsciiLo + 1, AsciiHi, AsciiHi + 1, maxunicode}

WidthFunctions == {Passes[pass].fn : pass \in DOMAIN Passes}
Complete(name) == emitted[name].printed /\ emitted[name].default # <<>>

\* ------------------------------------------------------------------ C1

\* C1: in each add_all pass, the clauses printed for layer k list exactly
\* layer k's set minus the union of the sets of the layers before it: a
\* codepoint of an earlier layer never appears in layer k's clauses.
C1_FirstLayerWins ==
    \A name \in WidthFunctions :
        emitted[name].printed =>
            LET layers == WidthLayers
            IN  \A k \in 1..Len(emitted[name].sections) :
                    SectionSet(emitted[name], k)
                        = layers[k].chars \ UNION {layers[j].chars : j \in 1..(k - 1)}

\* C1's case: U+0001 is a mark and of ambiguous width; both passes ran, the
\* Marks layer lists it and the ambiguous-width layer does not, and the
\* flags, which are marks too, are listed by the Flags layer alone.
C1_Witness ==
    /\ 1 \in marks /\ 1 \in ambiguous
    /\ \A name \in WidthFunctions :
          /\ Complete(name)
          /\ 1 \in SectionSet(emitted[name], 2)
          /\ 1 \notin SectionSet(emitted[name], 6)
          /\ SectionSet(emitted[name], 1) = flag_codepoints
          /\ SectionSet(emitted[name], 2) \cap flag_codepoints = {}

\* ------------------------------------------------------------------ C2

\* C2: no codepoint is matched by two clauses of the display-width function
\* (any two clauses, of one layer or of two, list disjoint sets), and a
\* codepoint matched by no clause gets the default branch, which returns 1.
C2_OneOutcome ==
    \A name \in WidthFunctions :
        emitted[name].printed =>
            LET fn == emitted[name]
                listed == [i \in DOMAIN fn.clauses |-> LabelValues(fn.clauses[i].label)]
            IN  /\ \A i \in DOMAIN listed : \A j \in 1..(i - 1) :
                      listed[i] \cap listed[j] = {}
                /\ Complete(name) =>
                      \A code \in TestCodes \ UNION Range(listed) :
                          Call(fn, code) = 1

\* C2's case: both functions are complete, a codepoint that is in three
\* layers (U+0378: ambiguous, double width and not assigned) is matched by
\* one clause, and U+0002, which is in no layer, gets the default.
C2_Witness ==
    /\ \A name \in WidthFunctions : Complete(name)
    /\ 888 \in ambiguous \cap doublewidth \cap not_assigned
    /\ Cardinality(MatchingClauses(emitted["Runewidth"], 888)) = 1
    /\ MatchingClauses(emitted["wcwidth_std"], 2) = {}
    /\ Call(emitted["wcwidth_std"], 2) = 1

\* ------------------------------------------------------------------ C4

\* The second pass emits the same residual set per layer as the first, and
\* each expanded clause lists exactly the values of the range clause at the
\* same position.
SameClauses ==
    /\ Len(emitted["wcwidth_std"].clauses) = Len(emitted["Runewidth"].clauses)
    /\ emitted["wcwidth_std"].sections = emitted["Runewidth"].sections
    /\ \A i \in DOMAIN emitted["wcwidth_std"].clauses :
          LET c == emitted["wcwidth_std"].clauses[i]
              g == emitted["Runewidth"].clauses[i]
          IN  /\ c.section = g.section /\ c.ret = g.ret
              /\ LabelValues(c.label) = LabelValues(g.label)

\* C4: the C function wcwidth_std and the Go function Runewidth printed
\* by gen_wcwidth list the same residual sets clause by clause and, as whole
\* functions, return the same width for every codepoint, for any input sets.
C4_BackendsAgree ==
    (Complete("wcwidth_std") /\ Complete("Runewidth")) =>
        /\ SameClauses
        /\ \A code \in TestCodes :
              Call(emitted["wcwidth_std"], code) = Call(emitted["Runewidth"], code)

\* ----------------------------------------------------- gen_ucd on its own

\* The most lines the data files of a gen_ucd run hold beyond the base.
MaxUcdEntries == 2

\* The lines the data files of a gen_ucd run may hold: a category or the
\* default-ignorable property for a codepoint of the pool.  NUL, the 'no
\* mark' codepoint of mark_map, is in no class that makes marks.
UcdFields == {"Cf", "Cs", "Mn", "Lu", ODICP}
UcdSlots ==
    {e \in UcdFields \X Pool : e[2] = 0 => e[1] \notin {"Cf", "Mn", ODICP}}

InitUcd ==
    /\ \E E \in SubsetsUpTo(UcdSlots, MaxUcdEntries) : Parsed(E, {VS15, VS16})
    /\ NoNames
    /\ readme_version = TRUE /\ gofmt_ok = TRUE
    /\ \E anchors \in BOOLEAN : NotStarted(anchors)
    /\ order = [r \in Runs |-> <<>>]
    /\ run_out = [r \in Runs |-> NotRun]

NextUcd ==
    \/ UcdBegin
    \/ CategoryTest
    \/ MarkMaps
    \/ PatchKnownMarks
    \/ WriteUrlRegex

SpecUcd == InitUcd /\ [][NextUcd]_vars

\* ------------------------------------------------------------------ C5

\* The ordinal of codepoint c among the marks: its position in the
\* ascending order of the marks, NUL before them all.
Ordinal(c) == Cardinality({m \in marks \cup {0} : m < c})

MarkCodes == TestCodes \cup {VS15 - 1, VS16 + 1}

CategoryNames == {CategoryTests[k].name : k \in DOMAIN CategoryTests}
CategoryCodes == TestCodes \cup {65024, 65533, 65534, 65535, 65536}

\* C10: each function printed by category_test returns true for a
\* codepoint exactly when the codepoint is in the union of the named classes
\* and extra_chars, minus exclude, the codepoints answered by the early
\* returns before the switch included.
C10_CategoryTestExact ==
    \A k \in DOMAIN CategoryTests :
        emitted[CategoryTests[k].name].printed =>
            \A code \in CategoryCodes :
                Call(emitted[CategoryTests[k].name], code)
                    = (code \in CategoryChars(CategoryTests[k]))

\* ------------------------------------------------------------ the whole run

\* The most lines the data files of a whole run hold beyond the base.
MaxRunEntries == 1

\* The lines the data files of a whole run may hold.
RunFields == {"Cf", "Mn", "wide"}
RunSlots == RunFields \X Unassigned

\* The lines of rowcolumn-diacritics.txt: none, or U+0305, U+0306, U+030E.
RunCodes == {<<>>, <<773, 774, 782>>}
\* The named codepoints: none, or U+0379 and U+0001 in that order.
RunNamed == {<<>>, <<889, 1>>}

\* The script after the parse_* calls: any working tree and data files of
\* the bounds, before gen_ucd.
Init ==
    /\ \E E \in SubsetsUpTo(RunSlots, MaxRunEntries) :
          \E vs \in {{VS15, VS16}, {VS15}} : Parsed(E, vs)
    /\ codes \in RunCodes
    /\ \E s \in RunNamed :
          /\ name_map = RunNameMap(s)
          /\ word_search_map = RunWordSearchMap(s)
    /\ names_elsewhere \in {0, MaxNamed}
    /\ readme_version \in BOOLEAN
    /\ gofmt_ok \in BOOLEAN
    /\ \E anchors \in BOOLEAN : NotStarted(anchors)
    /\ order = [r \in Runs |-> <<>>]
    /\ run_out = [r \in Runs |-> NotRun]

\* gen_ucd(); gen_wcwidth(); gen_emoji(); gen_names();
\* gen_rowcolumn_diacritics()
Next ==
    \/ UcdBegin
    \/ CategoryTest
    \/ MarkMaps
    \/ PatchKnownMarks
    \/ WriteUrlRegex
    \/ WcwidthBegin
    \/ \E pass \in DOMAIN Passes : AddAllClear(pass)
    \/ \E pass \in DOMAIN Passes : Add(pass)
    \/ \E pass \in DOMAIN Passes : AddAllEnd(pass)
    \/ PresentationBase
    \/ GofmtStd
    \/ GenEmoji
    \/ GenNames
    \/ GenRowcolumnDiacritics
    \/ GofmtDiacritics

Spec == Init /\ [][Next]_vars

\* ------------------------------------------------------------------ C7

\* Where the script stands while it is in gen_ucd before the patch is
\* written.
UcdStepsToPatch == {"gen_ucd", "category_test", "mark_maps", "patch"}
\* What the steps after gen_ucd write and print.
LaterFiles ==
    {"kitty/wcwidth-std.h", "tools/wcswidth/std.go", "kitty/emoji.h",
     "tools/unicode_names/names.txt", "kitty/rowcolumn-diacritics.c",
     "tools/utils/images/rowcolumn_diacritics.go"}
LaterFunctions ==
    {"wcwidth_std", "Runewidth", "is_emoji_presentation_base",
     "IsEmojiPresentationBase", "is_emoji", "is_symbol", "diacritic_to_num",
     "NumberToDiacritic"}

\* C7: when unicode-data.h holds no START_KNOWN_MARKS ... END_KNOWN_MARKS
\* region, the run never gets past the patch of gen_ucd (it is in gen_ucd
\* or has failed), unicode-data.h is as the run found it, and nothing of
\* gen_wcwidth, gen_emoji, gen_names or gen_rowcolumn_diacritics was written
\* or printed.
C7_MissingAnchorsAbort ==
    ~files["kitty/unicode-data.h"].anchors =>
        /\ files["kitty/unicode-data.h"] = OriginalFile(FALSE)
        /\ pc.at \in UcdStepsToPatch \cup {"failed"}
        /\ \A f \in LaterFiles : files[f].original
        /\ \A fn \in LaterFunctions : ~emitted[fn].printed

\* C7's case: the run reached the patch with both variation selectors among
\* the marks, found no region in unicode-data.h and ended with SystemExit.
C7_Witness ==
    /\ ~files["kitty/unicode-data.h"].anchors
    /\ emitted["mark_for_codepoint"].printed
    /\ {VS15, VS16} \subseteq DOMAIN rmap
    /\ pc = At("failed", 0)
    /\ raised = "SystemExit"

\* ------------------------------------------------------------------ C9

\* C9: in a run that has failed, every output file is as the run found it:
\* none was created, truncated or modified.
C9_NoPartialOutput ==
    pc.at = "failed" => \A f \in FileNames : files[f].original


\* ------------------------------------ gen_rowcolumn_diacritics on its own

\* How many codepoints, from U+0305 (the first row/column diacritic) on,
\* the lines of a rowcolumn-diacritics.txt may name.
MaxDiacriticSpan == 5

\* The lines of rowcolumn-diacritics.txt: any strictly ascending list of
\* codepoints of the span.
DiacriticPool == 773..(772 + MaxDiacriticSpan)
AscendingCodes == {Sort(ListOf(S)) : S \in SUBSET DiacriticPool}

InitDiacritics ==
    /\ Parsed({}, {VS15, VS16})
    /\ codes \in AscendingCodes
    /\ name_map = [cp \in {} |-> <<>>]
    /\ word_search_map = [w \in {} |-> {}]
    /\ names_elsewhere = 0
    /\ readme_version = TRUE
    /\ gofmt_ok \in BOOLEAN
    /\ files = [f \in FileNames |-> OriginalFile(f = "kitty/unicode-data.h")]
    /\ pc = At("gen_rowcolumn_diacritics", 0)
    /\ raised = ""
    /\ seen = {}
    /\ emitted = [f \in FunctionNames |-> NotEmitted]
    /\ rmap = [c \in {} |-> 0]
    /\ order = [r \in Runs |-> <<>>]
    /\ run_out = [r \in Runs |-> NotRun]

NextDiacritics ==
    \/ GenRowcolumnDiacritics
    \/ GofmtDiacritics

SpecDiacritics == InitDiacritics /\ [][NextDiacritics]_vars

\* ------------------------------------------------------------------ C11

\* The codepoints diacritic_to_num is called with: the span, the codepoint
\* before it and the two after it, and NUL.
DiacriticCodes ==
    {0} \cup (772..(774 + MaxDiacriticSpan))

\* `NumberToDiacritic[i]` of the printed Go array, i counted from 0.
NumberToDiacritic(i) == emitted["NumberToDiacritic"].map[i + 1]

\* C11: the printed diacritic_to_num is the inverse of the printed array
\* NumberToDiacritic: it returns i + 1 for the codepoint at index i of the
\* array, and 0 for every codepoint that is not in codes.
C11_DiacriticInverse ==
    emitted["diacritic_to_num"].printed =>
        /\ emitted["NumberToDiacritic"].map = codes
        /\ \A i \in 0..(Len(codes) - 1) :
              Call(emitted["diacritic_to_num"], NumberToDiacritic(i)) = i + 1
        /\ \A c \in DiacriticCodes \ Range(codes) :
              Call(emitted["diacritic_to_num"], c) = 0

\* --------------------------------------- parse_ucd and the width partition

\* The most lines (or First/Last pairs of lines) the data files of a run
\* hold beyond the base.
MaxAssignedEntries == 2

\* The lines the data files may hold: a letter at U+0378, at U+10FFFE or at
\* U+10FFFF; the range U+0378..U+0379 of letters; the range
\* U+10FFFC..U+10FFFD of private use codepoints; U+0379 or U+10FFFF as a
\* wide emoji or of East Asian double width.
AssignedSlots ==
    {<<"Lu", 888>>, <<"Lu", 888, 889>>, <<"Lu", maxunicode - 1>>, <<"Lu", maxunicode>>,
     <<"Co", maxunicode - 3, maxunicode - 2>>,
     <<"wide", 889>>, <<"doublewidth", maxunicode>>}

InitAssigned ==
    /\ \E E \in SubsetsUpTo(AssignedSlots, MaxAssignedEntries) : Parsed(E, {VS15, VS16})
    /\ NoNames
    /\ readme_version = TRUE
    /\ gofmt_ok = TRUE
    /\ files = [f \in FileNames |-> OriginalFile(f = "kitty/unicode-data.h")]
    /\ pc = At("gen_wcwidth", 0)
    /\ raised = ""
    /\ seen = {}
    /\ emitted = [f \in FunctionNames |-> NotEmitted]
    /\ rmap = [c \in {} |-> 0]
    /\ order = [r \in Runs |-> <<>>]
    /\ run_out = [r \in Runs |-> NotRun]

NextAssigned ==
    \/ WcwidthBegin
    \/ \E pass \in DOMAIN Passes : AddAllClear(pass)
    \/ \E pass \in DOMAIN Passes : Add(pass)
    \/ \E pass \in DOMAIN Passes : AddAllEnd(pass)
    \/ PresentationBase
    \/ GofmtStd

SpecAssigned == InitAssigned /\ [][NextAssigned]_vars

\* ------------------------------------------------------------------ C12

\* The codepoints some entry of UnicodeData.txt covers.
Assigned == UNION {class_maps[c] : c \in Categories}

\* The codepoints of the layers add_all registers before 'Not assigned'.
EarlierLayers ==
    UNION {WidthLayers[k].chars : k \in 1..(Len(WidthLayers) - 1)}

\* C12: not_assigned is exactly the codepoints of 0..0x10FFFF that no
\* entry of UnicodeData.txt covers, and both printed width functions return
\* -4 for every codepoint, U+10FFFF included, that is in no earlier layer and
\* is covered by no entry.
C12_UnassignedGetMinus4 ==
    /\ not_assigned = {c \in Codepoints : c \notin Assigned}
    /\ \A name \in WidthFunctions :
          Complete(name) =>
              \A code \in Codepoints \ (Assigned \cup EarlierLayers) :
                  Call(emitted[name], code) = -4

====
